---- MODULE Spec2Model ----
(***************************************************************************)
(* A model of CoolBox's Hi-C matrix normalisation pipeline                 *)
(* (coolbox/core/track/hicmat/fetch.py, class FetchHiC) and of the loop    *)
(* overlay index (coolbox/core/coverage/hicpeaks.py, class HiCPeaks), and  *)
(* of the '+' operator of coverages (coolbox/core/coverage/base.py).       *)
(*                                                                         *)
(* Python strings that the code takes apart (the 'normalize' setting, the  *)
(* lines of a loop file) are sequences of one-character strings.  Numbers  *)
(* of a matrix are exact rationals <<n, d>> extended with the IEEE values  *)
(* +inf = <<1,0>>, -inf = <<-1,0>> and NaN = <<0,0>> that numpy produces   *)
(* on a division by zero; rounding is not modelled.                        *)
(***************************************************************************)
EXTENDS Integers, Sequences, FiniteSets, TLC

VARIABLES
    pc,          \* position of the modelled call: "ready", "returned", "raised", ...
    properties,  \* FetchHiC.properties: a record holding the keys that are set
    heap,        \* the numpy arrays alive, by object identity (index)
    fetched,     \* the matrix fetch_matrix produced, as it was before the call
    arg,         \* the identity of the array handed to normalize_matrix
    result,      \* the identity of the array normalize_matrix returned (0: none)
    exc,         \* the exception normalize_matrix raised ("": none)
    calls,       \* the stages normalize_matrix ran: <<[stage, in, out]>>
    file,          \* the loop file of a HiCPeaks coverage: its lines, in order
    hpc,           \* the HiCPeaks object: "new", "built", or "failed" in __init__
    interval_tree, \* HiCPeaks.interval_tree: chromosome -> set of intervals
    headers,       \* the 0-based indices of the lines that load skipped as headers
    herr,          \* the exception the last HiCPeaks operation raised ("": none)
    query,         \* the arguments of the last plot call and the track's region
    visited,       \* the loops the last plot call went through, in order
    dicts,       \* the dict objects alive, by identity: key -> value
    lists,       \* the list objects alive, by identity: sequences of object identities
    objects,     \* the Coverage and CoverageStack objects alive, by identity
    added        \* the last '+': its operands, what they held before, its result

fetch_vars == <<pc, properties, heap, fetched, arg, result, exc, calls>>

peaks_vars == <<file, hpc, interval_tree, headers, herr, query, visited>>

base_vars == <<dicts, lists, objects, added>>

vars == <<fetch_vars, peaks_vars, base_vars>>

---------------------------------------------------------------------------
(* Bounds of the model.                                                    *)

MaxN == 2          \* matrices are 1x1 .. MaxN x MaxN
MaxExp == 1        \* strictly positive entries are 2^0 .. 2^MaxExp
MaxLines == 3      \* a loop file that is only loaded has at most MaxLines lines
MaxRows == 2       \* a loop file that is loaded and queried has at most MaxRows lines
MaxPos == 5        \* plot is asked for regions within 0 .. MaxPos
MaxObjects == 5    \* at most MaxObjects Coverage and CoverageStack objects are made

---------------------------------------------------------------------------
(* Integers and extended rationals.                                        *)

Abs(i) == IF i < 0 THEN -i ELSE i

Sgn(i) == IF i < 0 THEN -1 ELSE IF i > 0 THEN 1 ELSE 0

Max(a, b) == IF a < b THEN b ELSE a

Min(a, b) == IF a < b THEN a ELSE b

RECURSIVE GCD(_, _)
GCD(a, b) == IF b = 0 THEN a ELSE GCD(b, a % b)

\* the canonical form of n/d: lowest terms, d > 0; d = 0 gives +inf, -inf or NaN
Q(n, d) ==
    IF d = 0 THEN <<Sgn(n), 0>>
    ELSE LET g == GCD(Abs(n), Abs(d))
         IN  <<(Sgn(d) * n) \div g, Abs(d) \div g>>

Zero == <<0, 1>>
One == <<1, 1>>
NaN == <<0, 0>>
PosInf == <<1, 0>>
NegInf == <<-1, 0>>

IsFinite(x) == x[2] # 0

QNeg(x) == <<-x[1], x[2]>>

QAdd(x, y) ==
    IF x = NaN \/ y = NaN THEN NaN
    ELSE IF ~IsFinite(x) /\ ~IsFinite(y) THEN (IF x = y THEN x ELSE NaN)
    ELSE IF ~IsFinite(x) THEN x
    ELSE IF ~IsFinite(y) THEN y
    ELSE Q(x[1] * y[2] + y[1] * x[2], x[2] * y[2])

QSub(x, y) == QAdd(x, QNeg(y))

QMul(x, y) == Q(x[1] * y[1], x[2] * y[2])

\* IEEE division as numpy performs it: x/0 is +-inf, 0/0 and inf/inf are NaN
QDiv(x, y) ==
    LET s == IF y[1] < 0 THEN -1 ELSE 1
    IN  Q(s * x[1] * y[2], x[2] * Abs(y[1]))

\* x < y on IEEE values: false as soon as one side is NaN
QLess(x, y) ==
    IF x = NaN \/ y = NaN THEN FALSE
    ELSE IF x = y THEN FALSE
    ELSE IF x = NegInf \/ y = PosInf THEN TRUE
    ELSE IF x = PosInf \/ y = NegInf THEN FALSE
    ELSE x[1] * y[2] < y[1] * x[2]

RECURSIVE Pow2(_)
Pow2(k) == IF k = 0 THEN 1 ELSE 2 * Pow2(k - 1)

\* the k with x = 2^k, for a positive finite x that is a power of two; no
\* other positive rational has a logarithm this model can write down
RECURSIVE Log2Exact(_)
Log2Exact(x) ==
    IF x = One THEN 0
    ELSE IF x[2] = 1 /\ x[1] % 2 = 0 THEN 1 + Log2Exact(<<x[1] \div 2, 1>>)
    ELSE IF x[1] = 1 /\ x[2] % 2 = 0 THEN Log2Exact(<<1, x[2] \div 2>>) - 1
    ELSE CHOOSE k \in {} : TRUE

---------------------------------------------------------------------------
(* numpy arrays.  A square array is [n, a, scale, ops]: a[<<i, j>>] for    *)
(* 0 <= i, j < n holds the coefficient of entry (i, j); the entry itself   *)
(* is the coefficient times the positive constant `scale` names ("1": 1,   *)
(* "ln2": ln 2, "lg2": log10 2), or, under scale "signed_sqrt", it is      *)
(* sgn(c) * sqrt(|c|) for the coefficient c.  ops lists the library calls  *)
(* (scipy's gaussian_filter, a user function) applied on top, which the    *)
(* model does not evaluate.                                                *)

Idx(n) == 0 .. (n - 1)

Grid(n) == Idx(n) \X Idx(n)

MkArray(n, scale, a) == [n |-> n, scale |-> scale, ops |-> << >>, a |-> a]

\* operand index under numpy broadcasting: a length-1 axis is repeated
BIdx(arr, i) == IF arr.n = 1 THEN 0 ELSE i

At(arr, i, j) == arr.a[<<BIdx(arr, i), BIdx(arr, j)>>]

\* the common shape of two operands, -1 when numpy cannot broadcast them
BShape(m, n) == IF m = n THEN m ELSE IF m = 1 THEN n ELSE IF n = 1 THEN m ELSE -1

RECURSIVE SumTo(_, _)
\* f[0] + ... + f[k-1]
SumTo(f, k) == IF k = 0 THEN Zero ELSE QAdd(SumTo(f, k - 1), f[k - 1])

\* np.sum(mat): the sum of all entries' coefficients
np_sum(mat) ==
    SumTo([i \in Idx(mat.n) |-> SumTo([j \in Idx(mat.n) |-> mat.a[<<i, j>>]], mat.n)],
          mat.n)

\* np.diagonal(mat, i): the entries mat[r, r + i]
np_diagonal(mat, i) == [r \in Idx(mat.n - i) |-> mat.a[<<r, r + i>>]]

\* ndarray.mean() of a vector of k entries
np_mean(v, k) == QDiv(SumTo(v, k), <<k, 1>>)

\* the square of ndarray.std() of a vector of k entries: mean(|x - mean|^2)
np_var(v, k) ==
    LET mu == np_mean(v, k)
    IN  np_mean([r \in Idx(k) |-> QMul(QSub(v[r], mu), QSub(v[r], mu))], k)

\* scipy.linalg.toeplitz(c) for a real vector c: entry (i, j) is c[|i - j|]
toeplitz(c, n, scale) ==
    MkArray(n, scale, [ij \in Grid(n) |-> c[Abs(ij[1] - ij[2])]])

\* np.log, np.log2, np.log10 of one entry of a scale-"1" array, as a
\* coefficient of log_base(2)
np_log_entry(x) ==
    IF x = NaN THEN NaN
    ELSE IF x = PosInf THEN PosInf
    ELSE IF x = Zero THEN NegInf
    ELSE IF x[1] < 0 THEN NaN
    ELSE <<Log2Exact(x), 1>>

LogScale(base) ==
    IF base = "log2" THEN "1" ELSE IF base = "log10" THEN "lg2" ELSE "ln2"

np_log(base, arr) ==
    MkArray(arr.n, LogScale(base), [ij \in Grid(arr.n) |-> np_log_entry(arr.a[ij])])

\* scipy.ndimage.gaussian_filter(arr, sigma): a new array, not evaluated
gaussian_filter(arr, sigma) ==
    [arr EXCEPT !.ops = Append(@, <<"gaussian_filter", sigma>>)]

---------------------------------------------------------------------------
(* Python strings as sequences of characters.                              *)

Digits == <<"0", "1", "2", "3", "4", "5", "6", "7", "8", "9">>

IsDigitChar(c) == \E k \in 1 .. 10 : Digits[k] = c

DigitVal(c) == (CHOOSE k \in 1 .. 10 : Digits[k] = c) - 1

\* str.isdigit(): not empty and every character a digit
isdigit(s) == Len(s) > 0 /\ \A k \in 1 .. Len(s) : IsDigitChar(s[k])

RECURSIVE DigitsVal(_)
DigitsVal(s) ==
    IF Len(s) = 0 THEN 0
    ELSE 10 * DigitsVal(SubSeq(s, 1, Len(s) - 1)) + DigitVal(s[Len(s)])

\* int(s) accepts an optional sign followed by digits; anything else raises
\* ValueError (the blanks and underscores int() also accepts are not in the
\* alphabet of the model)
IntOk(s) ==
    IF Len(s) > 0 /\ s[1] \in {"-", "+"} THEN isdigit(Tail(s)) ELSE isdigit(s)

IntVal(s) ==
    IF s[1] = "-" THEN 0 - DigitsVal(Tail(s))
    ELSE IF s[1] = "+" THEN DigitsVal(Tail(s))
    ELSE DigitsVal(s)

\* str.startswith(prefix)
startswith(s, prefix) ==
    Len(s) >= Len(prefix) /\ SubSeq(s, 1, Len(prefix)) = prefix

RECURSIVE lstrip(_, _)
lstrip(s, chars) ==
    IF Len(s) > 0 /\ s[1] \in chars THEN lstrip(Tail(s), chars) ELSE s

RECURSIVE rstrip(_, _)
rstrip(s, chars) ==
    IF Len(s) > 0 /\ s[Len(s)] \in chars
    THEN rstrip(SubSeq(s, 1, Len(s) - 1), chars) ELSE s

\* str.strip(chars): drops the leading and trailing characters that are in
\* the set chars
strip(s, chars) == rstrip(lstrip(s, chars), chars)

RECURSIVE split_sep(_, _, _)
\* str.split(sep) for a one-character sep; cur is the piece being read
split_sep(s, sep, cur) ==
    IF Len(s) = 0 THEN <<cur>>
    ELSE IF s[1] = sep THEN <<cur>> \o split_sep(Tail(s), sep, << >>)
    ELSE split_sep(Tail(s), sep, Append(cur, s[1]))

Whitespace == {" ", "\t", "\n", "\r"}

RECURSIVE split_ws(_, _)
\* str.split(): the maximal runs of non-blank characters
split_ws(s, cur) ==
    IF Len(s) = 0 THEN (IF Len(cur) = 0 THEN << >> ELSE <<cur>>)
    ELSE IF s[1] \in Whitespace
         THEN (IF Len(cur) = 0 THEN << >> ELSE <<cur>>) \o split_ws(Tail(s), << >>)
    ELSE split_ws(Tail(s), Append(cur, s[1]))

S_no == <<"n", "o">>
S_total == <<"t", "o", "t", "a", "l">>
S_expect == <<"e", "x", "p", "e", "c", "t">>
S_zscore == <<"z", "s", "c", "o", "r", "e">>
S_hiccups == <<"h", "i", "c", "c", "u", "p", "s", ":">>

\* re.match("hiccups:.:.", s): the pattern is matched at the start of s, a
\* dot stands for one character other than a newline, and s may go on
re_match_hiccups(s) ==
    /\ Len(s) >= 11
    /\ SubSeq(s, 1, 8) = S_hiccups
    /\ s[9] # "\n"
    /\ s[10] = ":"
    /\ s[11] # "\n"

---------------------------------------------------------------------------
(* The donut filter.                                                       *)

\* where a slice bound b falls on an axis of length n
SliceBound(b, n) == IF b < 0 THEN Max(b + n, 0) ELSE Min(b, n)

\* i is selected by the slice start:stop on an axis of length n
InSlice(i, start, stop, n) == SliceBound(start, n) <= i /\ i < SliceBound(stop, n)

\* FetchHiC.__donut_kernel
__donut_kernel(p, w) ==
    LET K == 2 * w + 1
        k2(i, j) == IF InSlice(i, w - p, w + p + 1, K) /\ InSlice(j, w - p, w + p + 1, K)
                    THEN 1 ELSE 0
        k3(i, j) == IF \/ (InSlice(i, 0, w - p, K) /\ j = w)
                       \/ (i = w /\ InSlice(j, 0, w - p, K))
                       \/ (i = w /\ InSlice(j, w + 2 * p - 1, 2 * w + 1, K))
                       \/ (InSlice(i, w + 2 * p - 1, 2 * w + 1, K) /\ j = w)
                    THEN 1 ELSE 0
    IN  MkArray(K, "1",
                [ij \in Grid(K) |-> <<1 - k2(ij[1], ij[2]) - k3(ij[1], ij[2]), 1>>])

\* one entry of scipy.signal.convolve2d(ext, kernel, mode='same')
convolve2d_at(ext, kernel, i, j) ==
    LET c == (kernel.n - 1) \div 2
        term(a, b) == IF (i + c - a) \in Idx(kernel.n) /\ (j + c - b) \in Idx(kernel.n)
                      THEN QMul(ext.a[<<a, b>>], kernel.a[<<i + c - a, j + c - b>>])
                      ELSE Zero
    IN  SumTo([a \in Idx(ext.n) |-> SumTo([b \in Idx(ext.n) |-> term(a, b)], ext.n)],
              ext.n)

\* the number of rows, and of columns, of m_ext for an n x n matrix:
\*     np.zeros((m.shape[0] + 2 * (w - 1), m.shape[0] + 2 * (w - 1)))
m_ext_size(n, w) == n + 2 * (w - 1)

\* where slice(w, w + m.shape[0]) falls on an axis of m_ext: the rows, and
\* columns, start .. stop - 1
idx_center(n, w) ==
    [start |-> SliceBound(w, m_ext_size(n, w)),
     stop |-> SliceBound(w + n, m_ext_size(n, w))]

\* apply_donut of FetchHiC.__normalize_matrix: [exc, arr]
apply_donut(m, w, kernel) ==
    LET E == m_ext_size(m.n, w)
        lo == idx_center(m.n, w).start
        hi == idx_center(m.n, w).stop
        r == Max(hi - lo, 0)
        inside(i) == lo <= i /\ i < hi
        m_ext == MkArray(E, m.scale,
                     [ij \in Grid(E) |-> IF inside(ij[1]) /\ inside(ij[2])
                                         THEN At(m, ij[1] - lo, ij[2] - lo)
                                         ELSE Zero])
    IN  IF E < 0 THEN [exc |-> "ValueError", arr |-> m]
        ELSE IF m.n # r /\ m.n # 1 THEN [exc |-> "ValueError", arr |-> m]
        ELSE [exc |-> "",
              arr |-> MkArray(r, m.scale,
                          [ij \in Grid(r) |->
                              convolve2d_at(m_ext, kernel, lo + ij[1], lo + ij[2])])]

---------------------------------------------------------------------------
(* Diagonal profiles.                                                      *)

\* FetchHiC.diagonal_mean
diagonal_mean(mat) ==
    [i \in Idx(mat.n) |-> np_mean(np_diagonal(mat, i), mat.n - i)]

\* the smallest of a non-empty set of IEEE values without NaN
QMinOf(S) == CHOOSE x \in S : \A y \in S : ~QLess(y, x)

\* FetchHiC.diagonal_mean_std: [exc, means, stds], where stds holds the
\* SQUARES of the standard deviations (x -> x^2 keeps order and zero)
diagonal_mean_std(mat) ==
    LET means == [i \in Idx(mat.n) |-> np_mean(np_diagonal(mat, i), mat.n - i)]
        stds == [i \in Idx(mat.n) |-> np_var(np_diagonal(mat, i), mat.n - i)]
        positive == {stds[i] : i \in {k \in Idx(mat.n) : QLess(Zero, stds[k])}}
    IN  IF positive = {} THEN [exc |-> "ValueError", means |-> means, stds |-> stds]
        ELSE [exc |-> "", means |-> means,
              stds |-> [i \in Idx(mat.n) |->
                           IF stds[i] = Zero THEN QMinOf(positive) ELSE stds[i]]]

---------------------------------------------------------------------------
(* Objects.  A stage is handed the heap and the identity of its argument   *)
(* and gives back the heap, the identity of what it returns and the        *)
(* exception it raised ("" when it returned).                              *)

New(h, arr) == [exc |-> "", heap |-> Append(h, arr), ref |-> Len(h) + 1]

Same(h, r) == [exc |-> "", heap |-> h, ref |-> r]

Raise(h, e) == [exc |-> e, heap |-> h, ref |-> 0]

---------------------------------------------------------------------------
(* The stages of FetchHiC.normalize_matrix.                                *)

\* x / y, elementwise with broadcasting; the quotient's scale is given
np_divide(x, y, scale) ==
    MkArray(BShape(x.n, y.n), scale,
        [ij \in Grid(BShape(x.n, y.n)) |->
            QDiv(At(x, ij[1], ij[2]), At(y, ij[1], ij[2]))])

\* x * y, elementwise with broadcasting
np_multiply(x, y, scale) ==
    MkArray(BShape(x.n, y.n), scale,
        [ij \in Grid(BShape(x.n, y.n)) |->
            QMul(At(x, ij[1], ij[2]), At(y, ij[1], ij[2]))])

\* normalize_total without the test of the sum
normalize_total_unguarded(h, r) ==
    LET mat == h[r]
        total == np_sum(mat)
    IN  New(h, MkArray(mat.n, "1", [ij \in Grid(mat.n) |-> QDiv(mat.a[ij], total)]))

\* normalize_total dividing in place (mat /= total)
normalize_total_inplace(h, r) ==
    LET mat == h[r]
        total == np_sum(mat)
    IN  IF total # Zero
        THEN [exc |-> "", ref |-> r,
              heap |-> [h EXCEPT ![r] =
                          MkArray(mat.n, "1",
                              [ij \in Grid(mat.n) |-> QDiv(mat.a[ij], total)])]]
        ELSE Same(h, r)

\* the 'total' branch of __normalize_matrix
normalize_total(h, r) ==
    LET mat == h[r]
        total == np_sum(mat)
    IN  IF total # Zero
        THEN New(h, MkArray(mat.n, "1", [ij \in Grid(mat.n) |-> QDiv(mat.a[ij], total)]))
        ELSE Same(h, r)

\* the 'expect' branch of __normalize_matrix
normalize_expect(h, r) ==
    LET mat == h[r]
        expect == toeplitz(diagonal_mean(mat), mat.n, mat.scale)
    IN  New(h, np_divide(mat, expect, "1"))

\* (x - mean) / std for a std given by its square v, as the signed square
\* of the quotient
ZEntry(x, mean, v) ==
    LET d == QSub(x, mean)
        q == QDiv(QMul(d, d), v)
    IN  <<Sgn(d[1]) * q[1], q[2]>>

\* the 'zscore' branch of __normalize_matrix
normalize_zscore(h, r) ==
    LET mat == h[r]
        ms == diagonal_mean_std(mat)
    IN  IF ms.exc # "" THEN Raise(h, ms.exc)
        ELSE New(h, MkArray(mat.n, "signed_sqrt",
                      [ij \in Grid(mat.n) |->
                          ZEntry(mat.a[ij], ms.means[Abs(ij[1] - ij[2])],
                                 ms.stds[Abs(ij[1] - ij[2])])]))

\* the p and w that the 'hiccups:.:.' branch reads from the setting:
\*     p, w = norm_mth.strip("hiccups:").split(":");  p, w = int(w), int(p)
\* [exc, p, w]
hiccups_params(norm_mth) ==
    LET fields == split_sep(strip(norm_mth, {"h", "i", "c", "u", "p", "s", ":"}),
                            ":", << >>)
    IN  IF Len(fields) # 2 THEN [exc |-> "ValueError", p |-> 0, w |-> 0]
        ELSE IF ~IntOk(fields[2]) \/ ~IntOk(fields[1])
             THEN [exc |-> "ValueError", p |-> 0, w |-> 0]
        ELSE [exc |-> "", p |-> IntVal(fields[2]), w |-> IntVal(fields[1])]

\* the 'hiccups:.:.' branch of __normalize_matrix
normalize_hiccups(norm_mth, h, r) ==
    LET mat == h[r]
        pw == hiccups_params(norm_mth)
    IN  IF pw.exc # "" THEN Raise(h, pw.exc)
        ELSE LET p == pw.p
                 w == pw.w
             IN  IF 2 * w + 1 < 0 THEN Raise(h, "ValueError")
                 ELSE LET kernel == __donut_kernel(p, w)
                          exp_decay == toeplitz(diagonal_mean(mat), mat.n, mat.scale)
                          m_donut == apply_donut(mat, w, kernel)
                          exp_donut == apply_donut(exp_decay, w, kernel)
                          ratio == np_divide(m_donut.arr, exp_donut.arr, "1")
                          exp == np_multiply(ratio, exp_decay, mat.scale)
                      IN  IF m_donut.exc # "" THEN Raise(h, m_donut.exc)
                          ELSE IF exp_donut.exc # "" THEN Raise(h, exp_donut.exc)
                          ELSE IF exp.n < 0 \/ BShape(mat.n, exp.n) < 0
                               THEN Raise(h, "ValueError")
                          ELSE New(h, np_divide(mat, exp, "1"))

\* FetchHiC.__normalize_matrix
__normalize_matrix(props, h, r) ==
    LET norm_mth == props.normalize
    IN  IF norm_mth = S_total THEN normalize_total(h, r)
        ELSE IF norm_mth = S_expect THEN normalize_expect(h, r)
        ELSE IF norm_mth = S_zscore THEN normalize_zscore(h, r)
        ELSE IF re_match_hiccups(norm_mth) THEN normalize_hiccups(norm_mth, h, r)
        ELSE Same(h, r)

\* FetchHiC.__transform_matrix
__transform_matrix(props, h, r) ==
    IF props.transform = "log10" THEN New(h, np_log("log10", h[r]))
    ELSE IF props.transform = "log2" THEN New(h, np_log("log2", h[r]))
    ELSE IF props.transform = "log" THEN New(h, np_log("log", h[r]))
    ELSE Same(h, r)

\* FetchHiC.__gaussian_matrix
__gaussian_matrix(props, h, r) ==
    New(h, gaussian_filter(h[r], props.gaussian_sigma))

\* a call func(arr) of a user function: one that builds a new matrix, one
\* that hands its argument back, one that changes its argument in place and
\* hands it back, one that raises; a value that is not a function raises
\* TypeError when called
call_func(f, h, r) ==
    IF f = "new" THEN New(h, [h[r] EXCEPT !.ops = Append(@, <<"process_func", f>>)])
    ELSE IF f = "same" THEN Same(h, r)
    ELSE IF f = "inplace"
    THEN [exc |-> "",
          heap |-> [h EXCEPT ![r].ops = Append(@, <<"process_func", f>>)],
          ref |-> r]
    ELSE IF f = "raises" THEN Raise(h, "RuntimeError")
    ELSE Raise(h, "TypeError")

\* eval(func) of a source string: the name of the function it denotes, or
\* "" when the string does not evaluate
eval(src) ==
    IF src = "lambda m: m + 1" THEN "new"
    ELSE IF src = "lambda m: m" THEN "same"
    ELSE IF src = "None" THEN "None"
    ELSE ""

\* the process_func stage of normalize_matrix: every exception leaves as
\* ValueError
process_func_stage(props, h, r) ==
    LET func == props.process_func
        out == IF func.type = "callable" THEN call_func(func.v, h, r)
               ELSE IF func.type = "str"
                    THEN (IF eval(func.v) = "" THEN Raise(h, "SyntaxError")
                          ELSE call_func(eval(func.v), h, r))
               ELSE Raise(h, "ValueError")
    IN  IF out.exc # "" THEN Raise(h, "ValueError") ELSE out

\* the state of a running normalize_matrix after a stage returned `out`
Ran(s, stage, out) ==
    [exc |-> out.exc, heap |-> out.heap, ref |-> out.ref,
     calls |-> Append(s.calls, [stage |-> stage, in |-> s.ref, out |-> out.ref])]

NoFunc == [type |-> "str", v |-> "no"]

\* the state of a normalize_matrix call before its first stage
Entered(h, r) == [exc |-> "", heap |-> h, ref |-> r, calls |-> << >>]

\* if 'transform' in self.properties and self.properties['transform'] != 'no'
step_transform(props, s) ==
    IF s.exc # "" THEN s
    ELSE IF "transform" \in DOMAIN props /\ props.transform # "no"
    THEN Ran(s, "transform", __transform_matrix(props, s.heap, s.ref))
    ELSE s

\* if 'normalize' in self.properties and self.properties['normalize'] != 'no'
step_normalize(props, s) ==
    IF s.exc # "" THEN s
    ELSE IF "normalize" \in DOMAIN props /\ props.normalize # S_no
    THEN Ran(s, "normalize", __normalize_matrix(props, s.heap, s.ref))
    ELSE s

\* if 'gaussian_sigma' in self.properties and
\* self.properties['gaussian_sigma'] != 'no'
step_gaussian(props, s) ==
    IF s.exc # "" THEN s
    ELSE IF "gaussian_sigma" \in DOMAIN props /\ props.gaussian_sigma # "no"
    THEN Ran(s, "gaussian_sigma", __gaussian_matrix(props, s.heap, s.ref))
    ELSE s

\* if 'process_func' in self.properties and
\* self.properties['process_func'] != 'no'
step_process_func(props, s) ==
    IF s.exc # "" THEN s
    ELSE IF "process_func" \in DOMAIN props /\ props.process_func # NoFunc
    THEN Ran(s, "process_func", process_func_stage(props, s.heap, s.ref))
    ELSE s

\* normalize_matrix with the normalize stage run before the transform stage
normalize_matrix_swapped(props, h, r) ==
    step_process_func(props,
        step_gaussian(props,
            step_transform(props,
                step_normalize(props, Entered(h, r)))))

\* FetchHiC.normalize_matrix on the array r of heap h: [exc, heap, ref, calls]
normalize_matrix(props, h, r) ==
    step_process_func(props,
        step_gaussian(props,
            step_normalize(props,
                step_transform(props, Entered(h, r)))))

---------------------------------------------------------------------------
(* HiCPeaks: the loop file and the interval index.                         *)

S_chr == <<"c", "h", "r">>

\* coolbox.utilities.change_chrom_names: the name under the "chr" convention
change_chrom_names(chrom) ==
    IF startswith(chrom, S_chr) THEN chrom ELSE S_chr \o chrom

HexDigits ==
    <<"0", "1", "2", "3", "4", "5", "6", "7", "8", "9", "a", "b", "c", "d", "e", "f">>

RECURSIVE Hex(_)
\* the hexadecimal digits of n >= 0
Hex(n) ==
    IF n < 16 THEN <<HexDigits[n + 1]>>
    ELSE Hex(n \div 16) \o <<HexDigits[(n % 16) + 1]>>

\* "{:02x}".format(n)
Hex02(n) ==
    IF n < 0 THEN <<"-">> \o Hex(0 - n)
    ELSE IF n < 16 THEN <<"0">> \o Hex(n)
    ELSE Hex(n)

\* coolbox.utilities.rgb2hex: "#rrggbb"
rgb2hex(r, g, b) == <<"#">> \o Hex02(r) \o Hex02(g) \o Hex02(b)

\* HiCPeaks.DEFAULT_COLOR
DEFAULT_COLOR == <<"#", "2", "2", "5", "5", "f", "f">>

\* HiCPeaks.__is_header: [exc, value]
RECURSIVE is_header_at(_, _)
is_header_at(fields, idxs) ==
    IF Len(idxs) = 0 THEN [exc |-> "", value |-> FALSE]
    ELSE IF Head(idxs) >= Len(fields) THEN [exc |-> "IndexError", value |-> FALSE]
    ELSE IF ~isdigit(fields[Head(idxs) + 1]) THEN [exc |-> "", value |-> TRUE]
    ELSE is_header_at(fields, Tail(idxs))

\* is_header_at that takes a field for a number when int() accepts it
RECURSIVE is_header_at_int(_, _)
is_header_at_int(fields, idxs) ==
    IF Len(idxs) = 0 THEN [exc |-> "", value |-> FALSE]
    ELSE IF Head(idxs) >= Len(fields) THEN [exc |-> "IndexError", value |-> FALSE]
    ELSE IF ~IntOk(fields[Head(idxs) + 1]) THEN [exc |-> "", value |-> TRUE]
    ELSE is_header_at_int(fields, Tail(idxs))

__is_header_int(line) == is_header_at_int(split_ws(line, << >>), <<1, 2, 4, 5>>)

__is_header(line) == is_header_at(split_ws(line, << >>), <<1, 2, 4, 5>>)

\* the colour of a row: DEFAULT_COLOR, or rgb2hex of the "R,G,B" field;
\* [exc, color]
row_color(other) ==
    IF Len(other) = 0 THEN [exc |-> "", color |-> DEFAULT_COLOR]
    ELSE LET rgb == split_sep(other[1], ",", << >>)
         IN  IF \E k \in 1 .. Len(rgb) : ~IntOk(rgb[k])
             THEN [exc |-> "ValueError", color |-> << >>]
             ELSE IF Len(rgb) # 3 THEN [exc |-> "TypeError", color |-> << >>]
             ELSE [exc |-> "",
                   color |-> rgb2hex(IntVal(rgb[1]), IntVal(rgb[2]), IntVal(rgb[3]))]

\* intervaltree.Interval(begin, end, data)
Interval(begin, end, data) == [begin |-> begin, end |-> end, data |-> data]

\* the loop of a row whose six leading fields parse: LoopInterval(chr1, x1,
\* x2, chr2, y1, y2, color)
LoopInterval(fields, color) ==
    [chr1 |-> fields[1], x1 |-> IntVal(fields[2]), x2 |-> IntVal(fields[3]),
     chr2 |-> fields[4], y1 |-> IntVal(fields[5]), y2 |-> IntVal(fields[6]),
     color |-> color]

\* the state of a running load after an exception
Failed(st, e) == [st EXCEPT !.exc = e]

\* one round of the loop of __process_loop_file that drops a line it cannot
\* parse and goes on
process_line_lenient(st, idx, line) ==
    LET fields == split_ws(line, << >>)
        hdr == __is_header(line)
    IN  IF st.exc # "" THEN st
        ELSE IF idx = 0 /\ hdr.exc # "" THEN st
        ELSE IF idx = 0 /\ hdr.value THEN [st EXCEPT !.headers = @ \cup {idx}]
        ELSE IF Len(fields) < 6 THEN st
        ELSE IF \E k \in {2, 3, 5, 6} : ~IntOk(fields[k]) THEN st
        ELSE IF fields[1] # fields[4] THEN st
        ELSE LET chromosome == IF ~startswith(fields[1], S_chr)
                               THEN change_chrom_names(fields[1]) ELSE fields[1]
                 tree == IF chromosome \notin DOMAIN st.tree
                         THEN st.tree @@ (chromosome :> {}) ELSE st.tree
                 col == row_color(SubSeq(fields, 7, Len(fields)))
                 loop == LoopInterval(fields, col.color)
             IN  IF col.exc # "" THEN st
                 ELSE IF loop.x1 >= loop.y2 THEN st
                 ELSE [st EXCEPT !.tree =
                          [tree EXCEPT ![chromosome] =
                              @ \cup {Interval(loop.x1, loop.y2, loop)}]]

\* one round of the loop of HiCPeaks.__process_loop_file, on line idx
\* (0-based); st is [exc, tree, headers]
process_line(st, idx, line) ==
    LET fields == split_ws(line, << >>)
        hdr == __is_header(line)
    IN  IF st.exc # "" THEN st
        ELSE IF idx = 0 /\ hdr.exc # "" THEN Failed(st, hdr.exc)
        ELSE IF idx = 0 /\ hdr.value THEN [st EXCEPT !.headers = @ \cup {idx}]
        ELSE IF Len(fields) < 6 THEN Failed(st, "ValueError")
        ELSE IF \E k \in {2, 3, 5, 6} : ~IntOk(fields[k]) THEN Failed(st, "ValueError")
        ELSE IF fields[1] # fields[4] THEN st
        ELSE LET chromosome == IF ~startswith(fields[1], S_chr)
                               THEN change_chrom_names(fields[1]) ELSE fields[1]
                 tree == IF chromosome \notin DOMAIN st.tree
                         THEN st.tree @@ (chromosome :> {}) ELSE st.tree
                 col == row_color(SubSeq(fields, 7, Len(fields)))
                 loop == LoopInterval(fields, col.color)
             IN  IF col.exc # "" THEN Failed([st EXCEPT !.tree = tree], col.exc)
                 ELSE IF loop.x1 >= loop.y2
                      THEN Failed([st EXCEPT !.tree = tree], "ValueError")
                 ELSE [st EXCEPT !.tree =
                          [tree EXCEPT ![chromosome] =
                              @ \cup {Interval(loop.x1, loop.y2, loop)}]]

RECURSIVE process_lines(_, _, _)
\* the loop of __process_loop_file over the lines from index idx on
process_lines(st, idx, lines) ==
    IF Len(lines) = 0 THEN st
    ELSE process_lines(process_line(st, idx, Head(lines)), idx + 1, Tail(lines))

\* HiCPeaks.__process_loop_file: [exc, tree, headers]
__process_loop_file(f) ==
    process_lines([exc |-> "", tree |-> << >>, headers |-> {}], 0, f)

---------------------------------------------------------------------------
(* HiCPeaks.plot: the loops it goes through.                               *)

\* the characters of the model, in the order of their code points
AsciiOrder ==
    <<"\t", "\n", " ", "#", "+", ",", "-", "0", "1", "2", "3", "4", "5", "6", "7",
      "8", "9", ":", "a", "b", "c", "d", "e", "f", "h", "r", "x", "y">>

Ord(c) == CHOOSE k \in 1 .. Len(AsciiOrder) : AsciiOrder[k] = c

IntCmp(a, b) == IF a < b THEN -1 ELSE IF a > b THEN 1 ELSE 0

RECURSIVE StrCmp(_, _)
\* the order of two Python strings: -1, 0 or 1
StrCmp(s, t) ==
    IF Len(s) = 0 /\ Len(t) = 0 THEN 0
    ELSE IF Len(s) = 0 THEN -1
    ELSE IF Len(t) = 0 THEN 1
    ELSE IF s[1] # t[1] THEN IntCmp(Ord(s[1]), Ord(t[1]))
    ELSE StrCmp(Tail(s), Tail(t))

RECURSIVE FirstNonZero(_)
\* the order of two tuples, from the orders of their components
FirstNonZero(cmps) ==
    IF Len(cmps) = 0 THEN 0
    ELSE IF Head(cmps) # 0 THEN Head(cmps)
    ELSE FirstNonZero(Tail(cmps))

\* the order of two LoopInterval tuples
DataCmp(a, b) ==
    FirstNonZero(<<StrCmp(a.chr1, b.chr1), IntCmp(a.x1, b.x1), IntCmp(a.x2, b.x2),
                   StrCmp(a.chr2, b.chr2), IntCmp(a.y1, b.y1), IntCmp(a.y2, b.y2),
                   StrCmp(a.color, b.color)>>)

\* intervaltree.Interval.__cmp__: by begin, then end, then data
IntervalCmp(a, b) ==
    FirstNonZero(<<IntCmp(a.begin, b.begin), IntCmp(a.end, b.end),
                   DataCmp(a.data, b.data)>>)

RECURSIVE sorted(_)
\* sorted(S) for a set S of intervals
sorted(S) ==
    IF S = {} THEN << >>
    ELSE LET m == CHOOSE x \in S : \A y \in S : IntervalCmp(x, y) <= 0
         IN  <<m>> \o sorted(S \ {m})

\* IntervalTree[begin:end] with closed ends
overlap_closed(ivs, begin, end) ==
    IF begin > end THEN {}
    ELSE {iv \in ivs : iv.begin <= end /\ iv.end >= begin}

\* IntervalTree[begin:end]: the intervals [iv.begin, iv.end) that meet
\* [begin, end), none when begin >= end
overlap(ivs, begin, end) ==
    IF begin >= end THEN {}
    ELSE {iv \in ivs : iv.begin < end /\ iv.end > begin}

\* lookup_chrom without the second try
lookup_chrom_verbatim(tree, chrom_region) == chrom_region

\* the name plot looks up: chrom_region, or its other spelling when
\* chrom_region is not a key
lookup_chrom(tree, chrom_region) ==
    IF chrom_region \notin DOMAIN tree
    THEN change_chrom_names(chrom_region) ELSE chrom_region

\* the range plot fetches: the track's fetch_region when it has one
fetch_range(track, start_region, end_region) ==
    IF "fetch_region" \in DOMAIN track
    THEN [start |-> track.fetch_region.start, end |-> track.fetch_region.end]
    ELSE [start |-> start_region, end |-> end_region]

\* HiCPeaks.plot, up to the drawing: [exc, visited]
plot(tree, track, chrom_region, start_region, end_region) ==
    LET chrom == lookup_chrom(tree, chrom_region)
        rng == fetch_range(track, start_region, end_region)
    IN  IF chrom \notin DOMAIN tree THEN [exc |-> "KeyError", visited |-> << >>]
        ELSE LET ivs == sorted(overlap(tree[chrom], rng.start, rng.end))
             IN  [exc |-> "", visited |-> [k \in 1 .. Len(ivs) |-> ivs[k].data]]

---------------------------------------------------------------------------
(* The inputs of the model.                                                *)

\* a properties key that is either not set or set to one of vals
Setting(key, vals) == {<< >>} \cup {key :> v : v \in vals}

S_hiccups_1_2 == S_hiccups \o <<"1", ":", "2">>
S_hiccups_2_1 == S_hiccups \o <<"2", ":", "1">>
S_hiccups_2_2 == S_hiccups \o <<"2", ":", "2">>
S_hiccups_10_20 == S_hiccups \o <<"1", "0", ":", "2", "0">>
S_ice == <<"i", "c", "e">>

TransformValues == {"no", "log", "log2", "log10", "sqrt"}

NormalizeValues ==
    {S_no, S_total, S_expect, S_zscore, S_hiccups_1_2, S_hiccups_2_1,
     S_hiccups_2_2, S_hiccups_10_20, S_ice}

GaussianValues == {"no", "1.5"}

ProcessFuncValues ==
    {NoFunc,
     [type |-> "callable", v |-> "new"],
     [type |-> "callable", v |-> "inplace"],
     [type |-> "callable", v |-> "raises"],
     [type |-> "str", v |-> "lambda m: m"],
     [type |-> "int", v |-> "5"]}

AllProperties ==
    {t @@ n @@ g @@ f :
        t \in Setting("transform", TransformValues),
        n \in Setting("normalize", NormalizeValues),
        g \in Setting("gaussian_sigma", GaussianValues),
        f \in Setting("process_func", ProcessFuncValues)}

\* the values an entry of a contact matrix takes: -1, 0 and 1, 2, .., 2^MaxExp
Entries == {<<-1, 1>>, Zero} \cup {<<Pow2(k), 1>> : k \in 0 .. MaxExp}

\* the symmetric n x n matrix with first diagonal entry a, the other diagonal
\* entries b and every other entry c
Banded(n, a, b, c) ==
    MkArray(n, "1",
        [ij \in Grid(n) |-> IF ij[1] # ij[2] THEN c ELSE IF ij[1] = 0 THEN a ELSE b])

\* the settings under which 'total' normalisation is the only enabled stage
TotalProperties ==
    {[normalize |-> S_total],
     [normalize |-> S_total, transform |-> "no"],
     [normalize |-> S_total, transform |-> "no", gaussian_sigma |-> "no",
      process_func |-> NoFunc]}

\* the cells on and above the diagonal of an n x n matrix
Upper(n) == {ij \in Grid(n) : ij[1] <= ij[2]}

\* the symmetric n x n matrix with the entries f on and above its diagonal (a
\* contact matrix of one region against itself is symmetric)
Symmetric(n, f) ==
    MkArray(n, "1", [ij \in Grid(n) |-> f[<<Min(ij[1], ij[2]), Max(ij[1], ij[2])>>]])

BandedMatrices ==
    {Banded(n, a, b, c) : n \in 1 .. MaxN, a \in {<<-1, 1>>, One, <<2, 1>>},
                          b \in {<<-1, 1>>, One}, c \in {<<-1, 1>>, Zero, One}}

\* the lines of the loop files of the model
N_chr1 == <<"c", "h", "r", "1">>
N_chr2 == <<"c", "h", "r", "2">>
N_1 == <<"1">>

RECURSIVE JoinTab(_)
JoinTab(fields) ==
    IF Len(fields) = 0 THEN << >>
    ELSE IF Len(fields) = 1 THEN fields[1]
    ELSE fields[1] \o <<"\t">> \o JoinTab(Tail(fields))

Line(fields) == JoinTab(fields) \o <<"\n">>

L_header == Line(<<N_chr1, <<"x", "1">>, <<"x", "2">>, N_chr2, <<"y", "1">>, <<"y", "2">>>>)
L_red == Line(<<N_chr1, <<"1">>, <<"2">>, N_chr1, <<"3">>, <<"4">>,
                <<"2", "5", "5", ",", "0", ",", "0">>>>)
L_plain == Line(<<N_1, <<"2">>, <<"3">>, N_1, <<"4">>, <<"5">>>>)
L_inter == Line(<<N_chr1, <<"1">>, <<"2">>, N_chr2, <<"3">>, <<"4">>>>)
L_chr2 == Line(<<N_chr2, <<"2">>, <<"3">>, N_chr2, <<"4">>, <<"5">>>>)
L_negative == Line(<<N_chr1, <<"-", "1">>, <<"2">>, N_chr1, <<"3">>, <<"4">>>>)
L_letter == Line(<<N_chr1, <<"1">>, <<"x">>, N_chr1, <<"3">>, <<"4">>>>)
L_short == Line(<<N_chr1, <<"1">>, <<"2">>>>)
L_null == Line(<<N_chr1, <<"4">>, <<"5">>, N_chr1, <<"1">>, <<"2">>>>)

LinePool ==
    {L_header, L_red, L_plain, L_inter, L_chr2, L_negative, L_letter, L_short, L_null}

\* the files of at most n lines
Files(n) == UNION {[1 .. k -> LinePool] : k \in 0 .. n}

QueryChroms == {N_chr1, N_chr2, N_1}

\* the track a coverage is drawn on: without a fetch_region, or fetching
\* a region of its own
Tracks ==
    {<< >>,
     [fetch_region |-> [start |-> 0, end |-> MaxPos]],
     [fetch_region |-> [start |-> 2, end |-> 3]]}

---------------------------------------------------------------------------
(* The state machine: a FetchHiC object with its properties set, and one   *)
(* call of normalize_matrix on a matrix that fetch_matrix produced.        *)

\* what `added` holds before any '+'
NoAdd ==
    [op |-> "", left |-> 0, result |-> 0, exc |-> "", before |-> << >>,
     other |-> [kind |-> "", key |-> "", value |-> "", ref |-> 0]]

\* no Coverage and no CoverageStack object
NoBase ==
    /\ dicts = << >>
    /\ lists = << >>
    /\ objects = << >>
    /\ added = NoAdd

\* no HiCPeaks object
NoPeaks ==
    /\ file = << >>
    /\ hpc = "none"
    /\ interval_tree = << >>
    /\ headers = {}
    /\ herr = ""
    /\ query = << >>
    /\ visited = << >>

Start(props, matrices) ==
    /\ NoPeaks
    /\ NoBase
    /\ pc = "ready"
    /\ properties \in props
    /\ fetched \in matrices
    /\ heap = <<fetched>>
    /\ arg = 1
    /\ result = 0
    /\ exc = ""
    /\ calls = << >>

\* the call normalize_matrix(arr)
NormalizeMatrix ==
    /\ pc = "ready"
    /\ \E out \in {normalize_matrix(properties, heap, arg)} :
           /\ heap' = out.heap
           /\ calls' = out.calls
           /\ exc' = out.exc
           /\ result' = out.ref
           /\ pc' = IF out.exc = "" THEN "returned" ELSE "raised"
    /\ UNCHANGED <<properties, fetched, arg>>
    /\ UNCHANGED peaks_vars
    /\ UNCHANGED base_vars

Init == Start(AllProperties, BandedMatrices)

Next == NormalizeMatrix

\* normalize_matrix under every setting, on the banded matrices
Spec == Init /\ [][Next]_vars

InitTotal ==
    \E n \in 1 .. MaxN : \E f \in [Upper(n) -> Entries] :
        Start(TotalProperties, {Symmetric(n, f)})

\* normalize_matrix with only normalize='total' enabled, on the symmetric
\* matrices of 1 .. MaxN rows over Entries
SpecTotal == InitTotal /\ [][Next]_vars

\* no FetchHiC object
NoFetch ==
    /\ pc = "none"
    /\ properties = << >>
    /\ heap = << >>
    /\ fetched = << >>
    /\ arg = 0
    /\ result = 0
    /\ exc = ""
    /\ calls = << >>

\* a loop file of at most n lines, about to be handed to HiCPeaks(file_)
StartPeaks(n) ==
    /\ NoFetch
    /\ NoBase
    /\ file \in Files(n)
    /\ hpc = "new"
    /\ interval_tree = << >>
    /\ headers = {}
    /\ herr = ""
    /\ query = << >>
    /\ visited = << >>

\* HiCPeaks.__init__: the object exists only when the load returned
Construct ==
    /\ hpc = "new"
    /\ LET out == __process_loop_file(file)
       IN  /\ hpc' = IF out.exc = "" THEN "built" ELSE "failed"
           /\ herr' = out.exc
           /\ interval_tree' = IF out.exc = "" THEN out.tree ELSE << >>
           /\ headers' = IF out.exc = "" THEN out.headers ELSE {}
    /\ UNCHANGED <<file, query, visited>>
    /\ UNCHANGED fetch_vars
    /\ UNCHANGED base_vars

\* a call plot(ax, chrom_region, start_region, end_region) of a coverage
\* drawn on some track.  plot changes nothing a later call reads, so one
\* call per behaviour reaches every outcome.
Plot ==
    /\ hpc = "built"
    /\ DOMAIN query = {}
    /\ \E chrom_region \in QueryChroms, start_region \in 0 .. MaxPos,
          end_region \in 0 .. MaxPos, track \in Tracks :
          LET out == plot(interval_tree, track, chrom_region, start_region, end_region)
          IN  /\ query' = [chrom |-> chrom_region, start |-> start_region,
                           end |-> end_region, track |-> track]
              /\ visited' = out.visited
              /\ herr' = out.exc
    /\ UNCHANGED <<file, hpc, interval_tree, headers>>
    /\ UNCHANGED fetch_vars
    /\ UNCHANGED base_vars

InitLoad == StartPeaks(MaxLines)

NextLoad == Construct

\* the load of every loop file of at most MaxLines lines
SpecLoad == InitLoad /\ [][NextLoad]_vars

InitPeaks == StartPeaks(MaxRows)

NextPeaks == Construct \/ Plot

\* the load of every loop file of at most MaxRows lines, and plot calls on it
SpecPeaks == InitPeaks /\ [][NextPeaks]_vars

---------------------------------------------------------------------------
(* Coverages and their '+' operator (coolbox/core/coverage/base.py).  An   *)
(* object is [cls, properties, coverages]: a Coverage holds the identity   *)
(* of its properties dict, a CoverageStack the identity of its coverages   *)
(* list (0: no such attribute).  A store is [dicts, lists, objects, ref,   *)
(* exc]: ref is the identity of the object an operation returns.  The      *)
(* operands Track and Frame, whose classes live in other modules, are not  *)
(* modelled.                                                               *)

IsCoverage(objs, o) == o \in 1 .. Len(objs) /\ objs[o].cls = "Coverage"

IsCoverageStack(objs, o) == o \in 1 .. Len(objs) /\ objs[o].cls = "CoverageStack"

\* copy.copy(o): a new object with the attributes of o, i.e. the same dict
\* and the same list
copy(st, o) ==
    [st EXCEPT !.objects = Append(@, st.objects[o]), !.ref = Len(st.objects) + 1]

\* o.properties[key] = value
setitem(st, o, key, value) ==
    [st EXCEPT !.dicts[st.objects[o].properties] = (key :> value) @@ @]

\* CoverageStack.to_top
to_top(st, o, cov) ==
    [st EXCEPT !.lists[st.objects[o].coverages] = Append(@, cov)]

\* CoverageStack.to_bottom
to_bottom(st, o, cov) ==
    [st EXCEPT !.lists[st.objects[o].coverages] = <<cov>> \o @]

\* CoverageStack(coverages) on a new list
CoverageStack__init__(st, coverages) ==
    [st EXCEPT !.lists = Append(@, coverages),
               !.objects = Append(@, [cls |-> "CoverageStack", properties |-> 0,
                                      coverages |-> Len(st.lists) + 1]),
               !.ref = Len(st.objects) + 1]

\* raise TypeError(op_err_msg(self, other))
raise_TypeError(st) == [st EXCEPT !.exc = "TypeError", !.ref = 0]

\* result.properties[other.key] = other.value on the object just made
set_feature(st, other) == setitem(st, st.ref, other.key, other.value)

\* Coverage.__add__ for a Feature, a Coverage, a CoverageStack and any
\* other operand
Coverage__add__(st, self, other) ==
    IF other.kind = "Feature" THEN set_feature(copy(st, self), other)
    ELSE IF IsCoverage(st.objects, other.ref)
    THEN CoverageStack__init__(st, <<self, other.ref>>)
    ELSE IF IsCoverageStack(st.objects, other.ref)
    THEN to_bottom(copy(st, other.ref), Len(st.objects) + 1, self)
    ELSE raise_TypeError(st)

\* last = result.coverages[-1]; last.properties[other.key] = other.value
set_feature_of_last(st, other) ==
    IF Len(st.lists[st.objects[st.ref].coverages]) # 0
    THEN setitem(st, st.lists[st.objects[st.ref].coverages]
                         [Len(st.lists[st.objects[st.ref].coverages])],
                 other.key, other.value)
    ELSE st

\* CoverageStack.__add__ for a Coverage, a Feature and any other operand
CoverageStack__add__(st, self, other) ==
    IF IsCoverage(st.objects, other.ref)
    THEN to_top(copy(st, self), Len(st.objects) + 1, other.ref)
    ELSE IF other.kind = "Feature" THEN set_feature_of_last(copy(st, self), other)
    ELSE raise_TypeError(st)

\* the Feature objects of the model
Features ==
    {[kind |-> "Feature", key |-> "color", value |-> "blue", ref |-> 0],
     [kind |-> "Feature", key |-> "name", value |-> "peaks", ref |-> 0]}

\* the right operands of '+': a Feature, an object alive, or a number
Operands(objs) ==
    Features
        \cup {[kind |-> "object", key |-> "", value |-> "", ref |-> o] :
                 o \in 1 .. Len(objs)}
        \cup {[kind |-> "int", key |-> "", value |-> "", ref |-> 0]}

\* c1 = Coverage({..}), c2 = Coverage({}) and a CoverageStack of some of them
StartBase ==
    /\ NoFetch
    /\ NoPeaks
    /\ dicts \in {<<d, [name |-> "Coverage.2"]>> :
                     d \in {[name |-> "Coverage.1"],
                            [name |-> "Coverage.1", color |-> "red"]}}
    /\ lists \in {<< << >> >>, << <<1>> >>, << <<1, 2>> >>}
    /\ objects = <<[cls |-> "Coverage", properties |-> 1, coverages |-> 0],
                   [cls |-> "Coverage", properties |-> 2, coverages |-> 0],
                   [cls |-> "CoverageStack", properties |-> 0, coverages |-> 1]>>
    /\ added = NoAdd

\* the store of the state
Store == [dicts |-> dicts, lists |-> lists, objects |-> objects, ref |-> 0, exc |-> ""]

\* the state after the '+' named op on self and other left the store out
Added(op, self, other, before, out) ==
    /\ dicts' = out.dicts
    /\ lists' = out.lists
    /\ objects' = out.objects
    /\ added' = [op |-> op, left |-> self, result |-> out.ref, exc |-> out.exc,
                 before |-> before, other |-> other]
    /\ UNCHANGED fetch_vars
    /\ UNCHANGED peaks_vars

\* cov + other
CoverageAdd ==
    /\ Len(objects) < MaxObjects
    /\ \E self \in {o \in 1 .. Len(objects) : IsCoverage(objects, o)},
          other \in Operands(objects) :
          Added("Coverage.__add__", self, other, dicts[objects[self].properties],
                Coverage__add__(Store, self, other))

\* stack + other
CoverageStackAdd ==
    /\ Len(objects) < MaxObjects
    /\ \E self \in {o \in 1 .. Len(objects) : IsCoverageStack(objects, o)},
          other \in Operands(objects) :
          Added("CoverageStack.__add__", self, other, lists[objects[self].coverages],
                CoverageStack__add__(Store, self, other))

InitAdd == StartBase

NextAdd == CoverageAdd \/ CoverageStackAdd

\* every sequence of '+' on coverages and coverage stacks
SpecAdd == InitAdd /\ [][NextAdd]_vars

---------------------------------------------------------------------------
(* Properties of the normalisation pipeline.                               *)

Stages == <<"transform", "normalize", "gaussian_sigma", "process_func">>

\* the value of a key that switches its stage off
Sentinel(key) ==
    IF key = "normalize" THEN S_no ELSE IF key = "process_func" THEN NoFunc ELSE "no"

IsEnabled(key) == key \in DOMAIN properties /\ properties[key] # Sentinel(key)

EnabledStages == SelectSeq(Stages, LAMBDA key : IsEnabled(key))

\* the stage ran during the call
HasRun(stage) == \E k \in 1 .. Len(calls) : calls[k].stage = stage

RECURSIVE SumOver(_, _)
\* the sum of a[x] for x in S
SumOver(a, S) ==
    IF S = {} THEN Zero
    ELSE LET x == CHOOSE y \in S : TRUE
         IN  QAdd(a[x], SumOver(a, S \ {x}))

EntrySum(arr) == SumOver(arr.a, Grid(arr.n))

\* C1: normalize_matrix runs exactly the enabled stages, in the order
\* transform, normalize, gaussian smoothing, process_func; the first is handed
\* the caller's matrix and each later one what the stage before it returned,
\* so a stage that is absent or set to 'no' passes the matrix on untouched;
\* the call returns what the last stage returned, and a stage that raises
\* ends the call.
C1_StageOrder ==
    pc # "ready" =>
        LET want == EnabledStages
            n == Len(calls)
        IN  /\ n <= Len(want)
            /\ \A k \in 1 .. n : calls[k].stage = want[k]
            /\ \A k \in 1 .. n : calls[k].in = (IF k = 1 THEN arg ELSE calls[k - 1].out)
            /\ \A k \in 1 .. n : k < n => calls[k].out # 0
            /\ pc = "returned" =>
                   /\ n = Len(want)
                   /\ result = (IF n = 0 THEN arg ELSE calls[n].out)
                   /\ result # 0
            /\ pc = "raised" => n >= 1 /\ calls[n].out = 0
            /\ want = << >> => heap[result] = fetched

\* C1 (witness): a call in which all four stages ran and returned
C1_AllStagesRan == pc = "returned" /\ Len(calls) = 4

\* C2: with normalize='total' and no other stage enabled the call returns;
\* when the entries of M do not sum to zero every output entry is
\* M[i][j] / sum(M) and the output sums to 1, and when they sum to zero the
\* output equals M.
C2_Total ==
    pc # "ready" =>
        /\ pc = "returned"
        /\ LET out == heap[result]
               total == EntrySum(fetched)
           IN  IF total # Zero
               THEN /\ out.n = fetched.n
                    /\ \A ij \in Grid(out.n) : QMul(out.a[ij], total) = fetched.a[ij]
                    /\ EntrySum(out) = One
               ELSE out = fetched

\* C2 (witness): a matrix of two or more rows with a non-zero sum was divided
C2_Divided ==
    /\ pc = "returned"
    /\ fetched.n >= 2
    /\ EntrySum(fetched) # Zero
    /\ heap[result] # fetched

\* the setting 'hiccups:P:W' for one-digit P and W
HiccupsSetting(P, W) == S_hiccups \o <<Digits[P + 1], ":", Digits[W + 1]>>

\* C3: under 'hiccups:P:W' with positive P >= W normalisation raises instead
\* of returning a matrix, and with P < W the kernel is built with P as the
\* inner exclusion half-width and W as the outer half-width.
C3_HiccupsParameters ==
    \A P \in 1 .. 9, W \in 1 .. 9 :
        (/\ pc # "ready"
         /\ HasRun("normalize")
         /\ properties.normalize = HiccupsSetting(P, W))
        => /\ P >= W => pc = "raised"
           /\ P < W => /\ hiccups_params(properties.normalize).p = P
                       /\ hiccups_params(properties.normalize).w = W

KnownTransform(t) == t \in {"log", "log2", "log10"}

KnownNormalize(n) == n \in {S_total, S_expect, S_zscore} \/ startswith(n, S_hiccups)

\* C4: a transform value other than no, log, log2, log10 and a normalize
\* value other than no, total, expect, zscore, hiccups:P:W make the call
\* raise; no matrix is returned.
C4_UnknownModeRaises ==
    pc # "ready" =>
        /\ (HasRun("transform") /\ ~KnownTransform(properties.transform))
               => pc = "raised"
        /\ (HasRun("normalize") /\ ~KnownNormalize(properties.normalize))
               => pc = "raised"

BuiltIn == {"transform", "normalize", "gaussian_sigma"}

\* the settings of the built-in stages are all modes the code implements
ImplementedModes ==
    /\ IsEnabled("transform") => KnownTransform(properties.transform)
    /\ IsEnabled("normalize") =>
           \/ properties.normalize \in {S_total, S_expect, S_zscore}
           \/ re_match_hiccups(properties.normalize)

\* C10 (as claimed): after a call that ran built-in stages only the caller's
\* matrix holds the same values as before, and every built-in stage that ran
\* returned an object other than the one it was given.
C10_EveryStageReturnsNew ==
    (pc # "ready" /\ ImplementedModes) =>
        /\ ~HasRun("process_func") => heap[arg] = fetched
        /\ \A k \in 1 .. Len(calls) :
               (calls[k].stage \in BuiltIn /\ calls[k].out # 0)
                   => calls[k].out # calls[k].in

\* the built-in stage call c hands its argument back: 'total' on a matrix
\* whose entries sum to zero, or a value the stage does not recognise
HandsBack(c) ==
    \/ c.stage = "transform" /\ ~KnownTransform(properties.transform)
    \/ /\ c.stage = "normalize"
       /\ \/ properties.normalize = S_total /\ EntrySum(heap[c.in]) = Zero
          \/ /\ properties.normalize \notin {S_total, S_expect, S_zscore}
             /\ ~re_match_hiccups(properties.normalize)

\* C10 (amended): after a call that ran built-in stages only the caller's
\* matrix holds the same values as before, and every built-in stage that ran
\* returned a new object, except that 'total' on a matrix summing to zero
\* and a transform or normalize stage set to a value the code does not
\* recognise returned the object given.
C10_InputKept ==
    pc # "ready" =>
        /\ ~HasRun("process_func") => heap[arg] = fetched
        /\ \A k \in 1 .. Len(calls) :
               (calls[k].stage \in BuiltIn /\ calls[k].out # 0) =>
                   IF HandsBack(calls[k])
                   THEN calls[k].out = calls[k].in
                   ELSE /\ calls[k].out # arg
                        /\ \A j \in 1 .. k : calls[k].out # calls[j].in
                        /\ \A j \in 1 .. (k - 1) : calls[k].out # calls[j].out

\* C10 (witness): 'total' ran on a matrix summing to zero after a transform
\* that built a new matrix
C10_TotalHandsBack ==
    /\ pc = "returned"
    /\ Len(calls) >= 2
    /\ calls[1].stage = "transform" /\ calls[1].out # calls[1].in
    /\ calls[2].stage = "normalize" /\ properties.normalize = S_total
    /\ calls[2].out = calls[2].in

---------------------------------------------------------------------------
(* Properties of the loop index.                                           *)

FieldsOf(line) == split_ws(line, << >>)

\* a field of the line at one of the 0-based positions 1, 2, 4, 5 is not a
\* string of decimal digits
DigitHeader(line) ==
    \E i \in {1, 2, 4, 5} : i < Len(FieldsOf(line)) /\ ~isdigit(FieldsOf(line)[i + 1])

\* a field of the line at one of the 0-based positions 1, 2, 4, 5 is not a
\* number
NumberHeader(line) ==
    \E i \in {1, 2, 4, 5} : i < Len(FieldsOf(line)) /\ ~IntOk(FieldsOf(line)[i + 1])

\* the line has fewer than six fields, or a coordinate that is no integer
BadRow(line) ==
    \/ Len(FieldsOf(line)) < 6
    \/ \E k \in {2, 3, 5, 6} : ~IntOk(FieldsOf(line)[k])

\* the line is a well-formed row between two chromosomes
InterRow(line) == ~BadRow(line) /\ FieldsOf(line)[1] # FieldsOf(line)[4]

\* the interval of a well-formed row
RowInterval(line) ==
    LET f == FieldsOf(line)
        loop == LoopInterval(f, row_color(SubSeq(f, 7, Len(f))).color)
    IN  Interval(loop.x1, loop.y2, loop)

\* the 1-based numbers of the lines of the file that are rows within one
\* chromosome, the first line left out when `header` says it is a header
IntraRows(header) ==
    {k \in 1 .. Len(file) :
        /\ ~(k = 1 /\ header)
        /\ ~BadRow(file[k])
        /\ FieldsOf(file[k])[1] = FieldsOf(file[k])[4]}

IndexedIntervals == UNION {interval_tree[c] : c \in DOMAIN interval_tree}

Plotted == DOMAIN query # {}

\* the loops of the file on the chromosome named chrom, under either spelling
LoopsOn(chrom) ==
    {RowInterval(file[k]).data :
        k \in {j \in IntraRows(Len(file) > 0 /\ DigitHeader(file[1])) :
                  change_chrom_names(FieldsOf(file[j])[1]) = change_chrom_names(chrom)}}

VisitedSet == {visited[k] : k \in 1 .. Len(visited)}

\* visited lists distinct loops by ascending span start
Ascending ==
    /\ Cardinality(VisitedSet) = Len(visited)
    /\ \A k \in 1 .. (Len(visited) - 1) : visited[k].x1 <= visited[k + 1].x1

\* the range the plot call fetched
QueryRange ==
    IF "fetch_region" \in DOMAIN query.track
    THEN query.track.fetch_region
    ELSE [start |-> query.start, end |-> query.end]

\* C5 (as claimed): a query on a chromosome of the index goes through exactly
\* the loaded loops of that chromosome whose span [x1, y2] and the queried
\* [start, end] have a point in common, by ascending span start.
C5_ClosedOverlap ==
    (hpc = "built" /\ Plotted /\ query.chrom \in DOMAIN interval_tree) =>
        /\ herr = ""
        /\ Ascending
        /\ VisitedSet = {l \in LoopsOn(query.chrom) :
                            l.x1 <= query.end /\ l.y2 >= query.start}

\* C5 (amended): a query on a chromosome of the index goes through exactly
\* the loaded loops of that chromosome whose half-open span [x1, y2) meets
\* the half-open range [s, e), by ascending span start; (s, e) is the
\* track's fetch_region when the track has one and (start, end) when not,
\* and a range with s >= e meets nothing.
C5_HalfOpenOverlap ==
    (hpc = "built" /\ Plotted /\ query.chrom \in DOMAIN interval_tree) =>
        /\ herr = ""
        /\ Ascending
        /\ VisitedSet = {l \in LoopsOn(query.chrom) :
                            /\ QueryRange.start < QueryRange.end
                            /\ l.x1 < QueryRange.end
                            /\ l.y2 > QueryRange.start}

\* C5 (witness): the one-row file chr1 1 2 chr1 3 4 255,0,0 asked for chr1,
\* 0, 3 gives that one loop, coloured #ff0000
C5_OneLoop ==
    /\ hpc = "built"
    /\ file = <<L_red>>
    /\ Plotted
    /\ query.chrom = N_chr1 /\ query.start = 0 /\ query.end = 3
    /\ "fetch_region" \notin DOMAIN query.track
    /\ Len(visited) = 1
    /\ visited[1].color = <<"#", "f", "f", "0", "0", "0", "0">>

\* C6: a row between two chromosomes is left out of the index, and a query
\* on either of its chromosomes completes and goes through no loop of that
\* row, also when the file has no other row on that chromosome.
C6_InterChromosomal ==
    \A k \in 1 .. Len(file) :
        (hpc = "built" /\ InterRow(file[k]) /\ (k - 1) \notin headers) =>
            /\ \A iv \in IndexedIntervals : iv.data.chr1 = iv.data.chr2
            /\ (Plotted /\ query.chrom \in {FieldsOf(file[k])[1], FieldsOf(file[k])[4]})
                   => /\ herr = ""
                      /\ \A l \in VisitedSet : l.chr1 = l.chr2

\* C7: every key of the index carries the "chr" prefix, and a query by a
\* name that is no key while its normalised form is one completes and goes
\* through what the query by the normalised name goes through: the loops of
\* the file on that chromosome, under either spelling, that meet the range.
C7_NormalizedLookup ==
    hpc = "built" =>
        /\ \A c \in DOMAIN interval_tree : startswith(c, S_chr)
        /\ (/\ Plotted
            /\ query.chrom \notin DOMAIN interval_tree
            /\ change_chrom_names(query.chrom) \in DOMAIN interval_tree)
           => /\ herr = ""
              /\ visited = plot(interval_tree, query.track,
                                change_chrom_names(query.chrom),
                                query.start, query.end).visited
              /\ VisitedSet = {l \in LoopsOn(query.chrom) :
                                  /\ QueryRange.start < QueryRange.end
                                  /\ l.x1 < QueryRange.end
                                  /\ l.y2 > QueryRange.start}

\* C7 (witness): a file with a row spelt "1" and a row spelt "chr1", asked
\* for "1", gives both loops
C7_BothSpellings ==
    /\ hpc = "built"
    /\ Plotted
    /\ query.chrom = N_1
    /\ N_1 \notin DOMAIN interval_tree
    /\ \E k \in 1 .. Len(visited) : visited[k].chr1 = N_1
    /\ \E k \in 1 .. Len(visited) : visited[k].chr1 = N_chr1

\* C8 (as claimed): the first line is skipped as a header exactly when one
\* of its fields 1, 2, 4, 5 is not a number.
C8_HeaderByNumbers ==
    hpc = "built" => (0 \in headers <=> (Len(file) > 0 /\ NumberHeader(file[1])))

\* C8 (amended): the first line is skipped as a header exactly when one of
\* its fields 1, 2, 4, 5 is not a string of decimal digits (a signed number
\* such as -1 is not); no other line is skipped as a header, and every
\* other row within one chromosome is indexed, so a header line followed by
\* one such row gives one interval.
C8_HeaderByDigits ==
    hpc = "built" =>
        /\ headers = IF Len(file) > 0 /\ DigitHeader(file[1]) THEN {0} ELSE {}
        /\ IndexedIntervals = {RowInterval(file[k]) : k \in IntraRows(0 \in headers)}
        /\ (Len(file) = 2 /\ 0 \in headers /\ 2 \in IntraRows(TRUE))
               => Cardinality(IndexedIntervals) = 1

\* C8 (witness): a header line followed by one data row, one interval indexed
C8_HeaderAndRow ==
    /\ hpc = "built"
    /\ file = <<L_header, L_red>>
    /\ headers = {0}
    /\ Cardinality(IndexedIntervals) = 1

\* C9 (as claimed): a line, wherever it stands, with fewer than six fields or
\* a coordinate that is no integer makes the load fail.
C9_AnyBadLineFails ==
    (hpc # "new" /\ \E k \in 1 .. Len(file) : BadRow(file[k])) => hpc = "failed"

\* C9 (amended): a line with fewer than six fields or a coordinate that is
\* no integer, other than a first line skipped as a header, makes the load
\* fail with an exception whatever precedes or follows it: no index exists
\* afterwards.
C9_BadLineFailsLoad ==
    (/\ hpc # "new"
     /\ \E k \in 1 .. Len(file) : BadRow(file[k]) /\ ~(k = 1 /\ DigitHeader(file[1])))
    => /\ hpc = "failed"
       /\ herr # ""
       /\ interval_tree = << >>
       /\ headers = {}

\* C9 (witness): the third line is bad, after two rows that were indexed
C9_ThirdLineBad ==
    /\ hpc = "failed"
    /\ Len(file) = 3
    /\ BadRow(file[3])
    /\ 1 \in IntraRows(FALSE) /\ 2 \in IntraRows(FALSE)

---------------------------------------------------------------------------
(* Properties of the diagonal profiles and of the donut filter.            *)

\* normalize was the first stage to run, on the caller's matrix
NormalizeRanFirst == pc # "ready" /\ Len(calls) >= 1 /\ calls[1].stage = "normalize"

\* the square of the standard deviation of the diagonal at offset i of the
\* caller's matrix
DiagonalVar(i) == np_var(np_diagonal(fetched, i), fetched.n - i)

\* C11: diagonal_mean_std of a square N x N matrix returns, with one std for
\* each offset 0 .. N-1, every one of them strictly positive: an offset whose
\* diagonal has zero standard deviation (the one-element offset N-1 among
\* them) holds the least positive std of the other offsets; so the 'zscore'
\* stage that calls it returns as well.
C11_StdsPositive ==
    (NormalizeRanFirst /\ properties.normalize = S_zscore) =>
        /\ calls[1].out # 0
        /\ LET ms == diagonal_mean_std(fetched)
           IN  /\ ms.exc = ""
               /\ DOMAIN ms.stds = Idx(fetched.n)
               /\ \A i \in Idx(fetched.n) :
                      /\ QLess(Zero, ms.stds[i])
                      /\ DiagonalVar(i) # Zero => ms.stds[i] = DiagonalVar(i)
                      /\ DiagonalVar(i) = Zero =>
                             /\ \E k \in Idx(fetched.n) : ms.stds[i] = DiagonalVar(k)
                             /\ \A k \in Idx(fetched.n) :
                                    QLess(Zero, DiagonalVar(k))
                                        => ~QLess(DiagonalVar(k), ms.stds[i])

\* C12: under 'hiccups:P:W' with P < W, apply_donut embeds the N x N matrix
\* in a zero matrix with W-1 rows and columns of padding on each of its four
\* sides, the stage completes, and its output is N x N like its input.
C12_DonutPadding ==
    \A P \in 1 .. 9, W \in 1 .. 9 :
        (/\ P < W
         /\ NormalizeRanFirst
         /\ properties.normalize = HiccupsSetting(P, W))
        => LET N == fetched.n
               w == hiccups_params(properties.normalize).w
           IN  /\ m_ext_size(N, w) = N + 2 * (W - 1)
               /\ idx_center(N, w).start = W - 1
               /\ m_ext_size(N, w) - idx_center(N, w).stop = W - 1
               /\ calls[1].out # 0
               /\ heap[calls[1].out].n = N

---------------------------------------------------------------------------
(* Properties of the '+' operator.                                         *)

\* C13: '+' does not modify its left operand: after cov + feature the
\* properties of cov hold the keys and values they held before, and after
\* stack + cov the coverages of stack are the elements they were before, in
\* the same order; the returned object carries the feature or the coverage.
C13_LeftOperandKept ==
    /\ (added.op = "Coverage.__add__" /\ added.other.kind = "Feature") =>
           /\ added.exc = ""
           /\ dicts[objects[added.result].properties][added.other.key]
                  = added.other.value
           /\ dicts[objects[added.left].properties] = added.before
    /\ (added.op = "CoverageStack.__add__" /\ IsCoverage(objects, added.other.ref)) =>
           /\ added.exc = ""
           /\ lists[objects[added.result].coverages]
                  = Append(added.before, added.other.ref)
           /\ lists[objects[added.left].coverages] = added.before
====
